---- MODULE Spec2Model ----
(***************************************************************************)
(* Model of I2CHWC.ino: a bank of potentiometers, switches and rotary      *)
(* encoders exposed as I2C registers.  loop() is a process whose position  *)
(* is pc; the two Wire callbacks are interrupt handlers that run to        *)
(* completion between any two steps of loop().  The steps of loop() are    *)
(* cut where it reads or writes a field the handlers also touch (value,    *)
(* dirty, the interrupt pin); count, code and time are private to loop().  *)
(***************************************************************************)
EXTENDS Integers, Naturals, Sequences, FiniteSets, TLC

\* ------------------------------------------------------------------ sizes
\* Registry sizes, scaled down from 64 / 40 / 40 (lines 26-28).
MAX_POTS == 1
MAX_SWITCHES == 2
MAX_ENCODERS == 2
\* Quantities in use (lines 16-18): the source sets each to its maximum.
POTS == MAX_POTS
SWITCHES == MAX_SWITCHES
ENCODERS == MAX_ENCODERS

ADC_BITS == 10
ROT_THRESHOLD == 10
ROT_FAST_SCALE == 10
DEBOUNCE_TIME == 50

\* Width of the millisecond clock, scaled down from the 32 bits of uint32_t.
ClockBits == 7
ClockMod == 2 ^ ClockBits
\* Largest magnitude an encoder's accumulated delta takes in the model.
MaxDelta == 10

ADC_MASK_BITS == 12 - ADC_BITS
ADC_FILTER_SAMPLES == 32 \div (2 ^ ADC_MASK_BITS)
POT_START == 0
SWITCH_START == MAX_POTS
ENCODER_START == MAX_POTS + MAX_SWITCHES
MAX_CONTROLLERS == ENCODER_START + MAX_ENCODERS

\* the table with every code marked valid
anValid_AllValid == <<1,1,1,1,1,1,1,1,1,1,1,1,1,1,1,1>>

anValid == <<0,1,1,0,1,0,0,1,1,0,0,1,0,1,1,0>>

Index == 0 .. (MAX_CONTROLLERS - 1)

CONTROLLER_TYPE_POT == "pot"
CONTROLLER_TYPE_SWITCH == "switch"
CONTROLLER_TYPE_ENCODER == "encoder"

\* setup(): the type of each registry entry
TypeOf(i) ==
    IF i < SWITCH_START THEN CONTROLLER_TYPE_POT
    ELSE IF i < ENCODER_START THEN CONTROLLER_TYPE_SWITCH
    ELSE CONTROLLER_TYPE_ENCODER

\* ------------------------------------------------------------- arithmetic
RECURSIVE BitOp(_, _, _, _)
\* bitwise combination of the low n bits of a and b; op is "or" or "and"
BitOp(op, a, b, n) ==
    IF n = 0 THEN 0
    ELSE LET x == a % 2
             y == b % 2
             bit == IF op = "or" THEN (IF x + y > 0 THEN 1 ELSE 0)
                    ELSE (IF x + y = 2 THEN 1 ELSE 0)
         IN  bit + 2 * BitOp(op, a \div 2, b \div 2, n - 1)

BitOr(a, b) == BitOp("or", a, b, 8)
BitAnd(a, b) == BitOp("and", a, b, 8)
\* x << n in a uint8_t
Shl8(x, n) == (x * (2 ^ n)) % 256
Abs(x) == IF x < 0 THEN -x ELSE x
\* conversion of an int to uint8_t
ToUint8(x) == x % 256
\* unsigned addition in the clock's width
ClockAdd(t, d) == (t + d) % ClockMod

\* ------------------------------------------------------------------ state
VARIABLES
    g_anControllers,   \* the registry: dirty, value, count, code, time of each entry
    g_nLastRead,       \* the scan cursor (uint8_t)
    g_nI2Cregister,    \* the register selected by the last receive (int)
    pinLevel,          \* level of InterruptPin
    now,               \* millis()
    pc,                \* position of loop(): the scan, the controller, the step
    nDir,              \* readEncoder's local
    nNew,              \* the value loop() is about to store
    found,             \* what loop()'s getDirty decided and has not yet written
    ev,                \* history: what the last step of the program did
    changed,           \* history: a filter stored a value since the last read
    confirmed,         \* history: the decoder matched a tick since the last read
    host               \* the bus master: where it is in its read cycle

vars == <<g_anControllers, g_nLastRead, g_nI2Cregister, pinLevel, now,
          pc, nDir, nNew, found, ev, changed, confirmed, host>>

LOW == "LOW"
HIGH == "HIGH"
\* no index: what no read and no hit are recorded as
NoIndex == 0 - 1

\* struct Controller as constructed (static storage: time is zero)
Controller == [dirty |-> FALSE, value |-> 0, count |-> 0, code |-> 0, time |-> 0]

\* An event: op names the step; reg is the register selected when a handler
\* ran, or the register of the controller a filter sampled; out the bytes
\* written to the bus; last the last registry index read;
\* prev the byte of the scan report before, when this is a scan report and
\* nothing but scan reports came in between; in the sample a filter was given
\* and was the filter count it met (for an encoder, the nDir it met).
NoEvent == [op |-> "none", reg |-> 0, out |-> << >>, last |-> NoIndex,
            prev |-> << >>, in |-> 0, was |-> 0]

\* The bus master.  phase "free": it sends what it likes.  Otherwise it
\* repeats the cycle of a scan report ("scan"), the receive of the register r
\* the report named ("select") and the request that reads it ("read");
\* wait[i] counts the value responses given to other controllers while
\* controller i has been dirty, up to MAX_CONTROLLERS.
HostFree == [phase |-> "free", r |-> 0, wait |-> [i \in Index |-> 0]]
HostCycle == [HostFree EXCEPT !.phase = "scan"]

\* the master after a scan report that named ret
HostAfterScan(ret) ==
    IF host.phase = "free" THEN host
    ELSE [host EXCEPT !.phase = IF ret = 0 THEN "scan" ELSE "select", !.r = ret]

\* the master after it has sent an address
HostAfterReceive ==
    IF host.phase = "free" THEN host ELSE [host EXCEPT !.phase = "read"]

\* the master after a request that was answered with nothing
HostAfterNothing ==
    IF host.phase = "free" THEN host ELSE [host EXCEPT !.phase = "scan", !.r = 0]

\* the master after the value response for the controller at index i
HostAfterValue(i) ==
    IF host.phase = "free" THEN host
    ELSE [phase |-> "scan", r |-> 0,
          wait |-> [j \in Index |->
                      IF j = i \/ ~g_anControllers[j].dirty THEN 0
                      ELSE IF host.wait[j] < MAX_CONTROLLERS THEN host.wait[j] + 1
                      ELSE MAX_CONTROLLERS]]

\* the program after construction
Start ==
    /\ g_anControllers = [i \in Index |-> Controller]
    /\ g_nLastRead = 0
    /\ g_nI2Cregister = 0
    /\ pinLevel = LOW
    /\ now = 0
    /\ pc = [loop |-> "readAdc", i |-> 0, step |-> "sample"]
    /\ nDir = 0
    /\ nNew = 0
    /\ found = FALSE
    /\ ev = NoEvent
    /\ changed = [i \in Index |-> FALSE]
    /\ confirmed = [i \in Index |-> FALSE]

Init == Start /\ host = HostFree

\* the program with a master that follows the read cycle
InitCycle == Start /\ host = HostCycle

\* --------------------------------------------------------------- getValue
\* the value getValue returns for a controller
ReadTransform(i, c) ==
    IF TypeOf(i) = CONTROLLER_TYPE_POT THEN c.value \div (2 ^ ADC_MASK_BITS)
    ELSE c.value

\* the controller as getValue leaves it
getValue(i, c) ==
    IF TypeOf(i) = CONTROLLER_TYPE_ENCODER THEN [c EXCEPT !.value = 0] ELSE c

\* the two bytes with the high byte put first
anValue_HighFirst(nValue) == << (nValue \div 256) % 256, nValue % 256 >>

\* uint8_t anValue[] = {nValue & 0xFF, nValue >> 8}
anValue(nValue) == << nValue % 256, (nValue \div 256) % 256 >>

\* --------------------------------------------------------------- getDirty
\* getDirty's two loops, for a cursor c: how many indices they visit when no
\* flag is set, and the k-th index they visit (k from 1)
\* the first loop alone: the scan stops at the end of the registry
ScanLen_NoWrap(c) == IF c < MAX_CONTROLLERS THEN MAX_CONTROLLERS - c ELSE c

ScanLen(c) == IF c < MAX_CONTROLLERS THEN MAX_CONTROLLERS ELSE c

ScanAt(c, k) ==
    IF c >= MAX_CONTROLLERS THEN k - 1
    ELSE IF c + k - 1 < MAX_CONTROLLERS THEN c + k - 1
    ELSE c + k - 1 - MAX_CONTROLLERS

\* the indices past the end of the registry that the second loop reaches
PastEnd(c) == MAX_CONTROLLERS .. (c - 1)

\* What a read of g_anControllers[i].dirty gives.  Past the end of the array
\* the read is of whatever lies there: hit names the first such index whose
\* byte reads non-zero, NoIndex when none does.
ReadDirty(ctl, i, hit) == IF i \in Index THEN ctl[i].dirty ELSE i = hit

\* getDirty with both loops started at index 0: the cursor is ignored
getDirty_FromZero(ctl, c, hit) ==
    LET hits == {i \in Index : ctl[i].dirty}
        first == CHOOSE i \in hits : \A j \in hits : i <= j
    IN  IF hits = {}
        THEN [ret |-> 0, pin |-> HIGH, last |-> MAX_CONTROLLERS - 1]
        ELSE [ret |-> first + 1, pin |-> LOW, last |-> first]

\* getDirty: the value returned, the level written to the pin and the last
\* index read
getDirty(ctl, c, hit) ==
    LET hits == {k \in 1 .. ScanLen(c) : ReadDirty(ctl, ScanAt(c, k), hit)}
        first == CHOOSE k \in hits : \A j \in hits : k <= j
    IN  IF hits = {}
        THEN [ret |-> 0, pin |-> HIGH,
              last |-> IF ScanLen(c) = 0 THEN NoIndex ELSE ScanAt(c, ScanLen(c))]
        ELSE [ret |-> ScanAt(c, first) + 1, pin |-> LOW, last |-> ScanAt(c, first)]

\* The outcomes of the reads past the end that a scan from cursor c can meet:
\* none reads non-zero, the first does, or only the last does.
Hits(c) ==
    {NoIndex} \cup (PastEnd(c) \cap {MAX_CONTROLLERS, c - 1})

\* ------------------------------------------------------------------ loop()
\* where loop() goes once it is done with controller i of a scan
Advance(scan, i) ==
    IF scan = "readAdc" THEN
        IF i + 1 < POTS THEN [loop |-> "readAdc", i |-> i + 1, step |-> "sample"]
        ELSE [loop |-> "readSwitch", i |-> 0, step |-> "sample"]
    ELSE IF scan = "readSwitch" THEN
        IF i + 1 < SWITCHES THEN [loop |-> "readSwitch", i |-> i + 1, step |-> "sample"]
        ELSE [loop |-> "readEncoder", i |-> 0, step |-> "sample"]
    ELSE
        IF i + 1 < ENCODERS THEN [loop |-> "readEncoder", i |-> i + 1, step |-> "sample"]
        ELSE [loop |-> "getDirty", i |-> 0, step |-> "scan"]

\* the registry index of the controller loop() is at
Current ==
    IF pc.loop = "readAdc" THEN POT_START + pc.i
    ELSE IF pc.loop = "readSwitch" THEN SWITCH_START + pc.i
    ELSE ENCODER_START + pc.i

\* nDir is a local of readEncoder: it starts at 0 on every call
DirAfter(next, dir) == IF next.loop = "readEncoder" THEN dir ELSE 0

LoopEvent == [NoEvent EXCEPT !.op = "loop"]

\* line 136 with the mask bits taken for the mask unit
WithinTolerance_Unshifted(nAnaRead, value) == Abs(nAnaRead - value) < ADC_MASK_BITS

\* line 136: the sample is within one mask unit of the stored value
WithinTolerance(nAnaRead, value) == Abs(nAnaRead - value) < 2 ^ ADC_MASK_BITS

\* line 141 with the count compared before it is incremented
StillFiltering_PostIncrement(count) == ToUint8(count) < ADC_FILTER_SAMPLES

\* line 141: the incremented count is still short of the threshold
StillFiltering(count) == ToUint8(count + 1) < ADC_FILTER_SAMPLES

\* readAdc, one potentiometer, lines 135-143: nAnaRead is the sample
readAdc(nAnaRead) ==
    /\ pc.loop = "readAdc" /\ pc.step = "sample"
    /\ LET c == g_anControllers[Current] IN
        IF WithinTolerance(nAnaRead, c.value)
        THEN /\ g_anControllers' = [g_anControllers EXCEPT ![Current].count = 0]
             /\ pc' = Advance(pc.loop, pc.i)
             /\ nNew' = nNew
        ELSE IF StillFiltering(c.count)
        THEN /\ g_anControllers' =
                    [g_anControllers EXCEPT ![Current].count = ToUint8(c.count + 1)]
             /\ pc' = Advance(pc.loop, pc.i)
             /\ nNew' = nNew
        ELSE /\ g_anControllers' = [g_anControllers EXCEPT ![Current].count = 0]
             /\ pc' = [pc EXCEPT !.step = "store"]
             /\ nNew' = nAnaRead
    /\ ev' = [NoEvent EXCEPT !.op = "readAdc", !.reg = Current + 1,
                             !.in = nAnaRead,
                             !.was = g_anControllers[Current].count]
    /\ UNCHANGED <<g_nLastRead, g_nI2Cregister, pinLevel, now, nDir, found,
                   changed, confirmed, host>>

\* the comparison of line 169
DebounceOver(c) == now > ClockAdd(c.time, DEBOUNCE_TIME)

\* readSwitch, one switch, lines 168-169: nValue is the level read
readSwitch(nValue) ==
    /\ pc.loop = "readSwitch" /\ pc.step = "sample"
    /\ LET c == g_anControllers[Current] IN
        IF nValue # c.value /\ DebounceOver(c)
        THEN /\ pc' = [pc EXCEPT !.step = "store"]
             /\ nNew' = nValue
        ELSE /\ pc' = Advance(pc.loop, pc.i)
             /\ nNew' = nNew
    /\ nDir' = 0
    /\ ev' = [NoEvent EXCEPT !.op = "readSwitch", !.reg = Current + 1,
                             !.in = nValue]
    /\ UNCHANGED <<g_anControllers, g_nLastRead, g_nI2Cregister, pinLevel, now,
                   found, changed, confirmed, host>>

\* lines 206-211: the 4-bit code after shifting in the data and clock bits
NextCode(code, nClk, nData) ==
    LET shifted == Shl8(code, 2)
        withData == IF nData # 0 THEN BitOr(shifted, 2) ELSE shifted
        withClk == IF nClk # 0 THEN BitOr(withData, 1) ELSE withData
    IN  BitAnd(withClk, 15)

\* lines 215-216: the 8-bit history after shifting in a valid code
NextCount(count, code) == BitOr(Shl8(count, 4), code)

\* lines 217-220: the direction after looking at the history
NextDir(count, dir) ==
    IF count = 212 THEN -1 ELSE IF count = 23 THEN 1 ELSE dir

\* the comparison of line 224
SlowTurn(c, lNow) == lNow >= ClockAdd(c.time, ROT_THRESHOLD)

\* lines 224-227: what is added to the value
Increment(c, lNow, dir) ==
    IF SlowTurn(c, lNow) THEN dir ELSE dir * ROT_FAST_SCALE

\* readEncoder, one encoder, lines 202-229 up to the load of value: the store
\* of value and of dirty are the steps that follow.  limit bounds the
\* magnitude of the accumulated value.
readEncoder(nClk, nData, limit) ==
    /\ pc.loop = "readEncoder" /\ pc.step = "sample"
    /\ LET c == g_anControllers[Current]
           code == NextCode(c.code, nClk, nData)
           count == NextCount(c.count, code)
           dir == NextDir(count, nDir)
       IN  IF nClk = 0 /\ c.code = 0
           THEN /\ pc' = Advance(pc.loop, pc.i)
                /\ nDir' = DirAfter(pc', nDir)
                /\ UNCHANGED <<g_anControllers, nNew, confirmed>>
           ELSE IF anValid[code + 1] = 0
           THEN /\ g_anControllers' = [g_anControllers EXCEPT ![Current].code = code]
                /\ pc' = Advance(pc.loop, pc.i)
                /\ nDir' = DirAfter(pc', nDir)
                /\ UNCHANGED <<nNew, confirmed>>
           ELSE IF dir = 0
           THEN /\ g_anControllers' =
                       [g_anControllers EXCEPT ![Current].code = code,
                                               ![Current].count = count]
                /\ pc' = Advance(pc.loop, pc.i)
                /\ nDir' = DirAfter(pc', nDir)
                /\ UNCHANGED <<nNew, confirmed>>
           ELSE /\ Abs(c.value + Increment(c, now, dir)) <= limit
                /\ g_anControllers' =
                       [g_anControllers EXCEPT ![Current].code = 0,
                                               ![Current].count = count,
                                               ![Current].time = now]
                /\ pc' = [pc EXCEPT !.step = "store"]
                /\ nDir' = dir
                /\ nNew' = c.value + Increment(c, now, dir)
                /\ confirmed' =
                       IF count \in {23, 212}
                       THEN [confirmed EXCEPT ![Current] = TRUE] ELSE confirmed
    /\ ev' = [NoEvent EXCEPT !.op = "readEncoder", !.reg = Current + 1,
                             !.in = 2 * nData + nClk, !.was = nDir]
    /\ UNCHANGED <<g_nLastRead, g_nI2Cregister, pinLevel, now, found, changed,
                   host>>

\* lines 144, 172, 225/227: the store of the new value
storeValue ==
    /\ pc.step = "store"
    /\ g_anControllers' = [g_anControllers EXCEPT ![Current].value = nNew]
    /\ changed' = [changed EXCEPT ![Current] = TRUE]
    /\ pc' = [pc EXCEPT !.step = "mark"]
    /\ nNew' = 0
    /\ ev' = LoopEvent
    /\ UNCHANGED <<g_nLastRead, g_nI2Cregister, pinLevel, now, nDir, found,
                   confirmed, host>>

\* lines 145-146, 173-174, 230: dirty = true, and for a potentiometer or a
\* switch the time stamp that follows it
setDirty ==
    /\ pc.step = "mark"
    /\ g_anControllers' =
          [g_anControllers EXCEPT
              ![Current].dirty = TRUE,
              ![Current].time = IF pc.loop = "readEncoder" THEN @ ELSE now]
    /\ pc' = Advance(pc.loop, pc.i)
    /\ nDir' = DirAfter(pc', nDir)
    /\ ev' = LoopEvent
    /\ UNCHANGED <<g_nLastRead, g_nI2Cregister, pinLevel, now, nNew, found,
                   changed, confirmed, host>>

\* loop()'s call of getDirty, lines 257-272: the scan
loopGetDirty ==
    /\ pc.loop = "getDirty" /\ pc.step = "scan"
    /\ \E hit \in Hits(g_nLastRead) :
          LET r == getDirty(g_anControllers, g_nLastRead, hit) IN
          /\ found' = (r.pin = LOW)
          /\ ev' = [LoopEvent EXCEPT !.last = r.last]
    /\ pc' = [pc EXCEPT !.step = "pin"]
    /\ UNCHANGED <<g_anControllers, g_nLastRead, g_nI2Cregister, pinLevel, now,
                   nDir, nNew, changed, confirmed, host>>

\* loop()'s call of getDirty, lines 261/269/273: the write of the pin, which
\* ends the pass
loopWritePin ==
    /\ pc.loop = "getDirty" /\ pc.step = "pin"
    /\ pinLevel' = IF found THEN LOW ELSE HIGH
    /\ found' = FALSE
    /\ pc' = [loop |-> "readAdc", i |-> 0, step |-> "sample"]
    /\ ev' = [NoEvent EXCEPT !.op = "pass"]
    /\ UNCHANGED <<g_anControllers, g_nLastRead, g_nI2Cregister, now, nDir, nNew,
                   changed, confirmed, host>>

\* ------------------------------------------------------------ I2C handlers
\* onI2Creceive without line 318: the scan cursor is left where it was
onI2Creceive_KeepsCursor(read) ==
    /\ g_nI2Cregister' = read
    /\ ev' = [NoEvent EXCEPT !.op = "receive", !.reg = read]
    /\ host' = HostAfterReceive
    /\ UNCHANGED <<g_anControllers, g_nLastRead, pinLevel, now, pc, nDir, nNew,
                   found, changed, confirmed>>

\* onI2Creceive: read is what Wire.read() returns, the byte or -1 when the
\* message is empty
onI2Creceive(read) ==
    /\ g_nI2Cregister' = read
    /\ g_nLastRead' = ToUint8(read)
    /\ ev' = [NoEvent EXCEPT !.op = "receive", !.reg = read]
    /\ host' = HostAfterReceive
    /\ UNCHANGED <<g_anControllers, pinLevel, now, pc, nDir, nNew, found, changed,
                   confirmed>>

\* the guard of line 282
Rejected(controller) == controller = 0 \/ controller > MAX_CONTROLLERS

\* a bus event of onI2Crequest
RequestEvent(out, last) ==
    [NoEvent EXCEPT !.op = "request", !.reg = g_nI2Cregister, !.out = out,
                    !.last = last]

\* sendValue, line 283: nothing is written
NoResponse ==
    /\ ev' = RequestEvent(<< >>, NoIndex)
    /\ host' = HostAfterNothing
    /\ UNCHANGED <<g_anControllers, pinLevel, changed, confirmed>>

\* lines 284 and 288 without the reset of dirty
ReadOut_KeepDirty(i, c) == getValue(i, c)

\* lines 284 and 288: the controller after getValue and dirty = false
ReadOut(i, c) == [getValue(i, c) EXCEPT !.dirty = FALSE]

\* sendValue, lines 284-289, for the controller at index i
Respond(i) ==
    LET c == g_anControllers[i]
        ctl == [g_anControllers EXCEPT ![i] = ReadOut(i, c)]
    IN  \E hit \in Hits(g_nLastRead) :
           LET r == getDirty(ctl, g_nLastRead, hit) IN
           /\ g_anControllers' = ctl
           /\ pinLevel' = r.pin
           /\ changed' = [changed EXCEPT ![i] = FALSE]
           /\ confirmed' = [confirmed EXCEPT ![i] = FALSE]
           /\ host' = HostAfterValue(i)
           /\ ev' = RequestEvent(anValue(ReadTransform(i, c)),
                                 IF r.last > i THEN r.last ELSE i)

\* sendValue with an address past the last register taken for the last one
sendValue_Clamped(controller) ==
    IF controller = 0 THEN NoResponse
    ELSE IF controller > MAX_CONTROLLERS THEN Respond(MAX_CONTROLLERS - 1)
    ELSE Respond(controller - 1)

\* sendValue(controller), called by onI2Crequest
sendValue(controller) ==
    IF Rejected(controller) THEN NoResponse ELSE Respond(controller - 1)

\* a scan report: one byte
IsScanReport(e) == e.op = "request" /\ Len(e.out) = 1
\* a value response: two bytes
IsValueResponse(e) == e.op = "request" /\ Len(e.out) = 2

\* the scan report with the flag of the controller it names cleared
ScanReport_ClearsFlag ==
    /\ \E hit \in Hits(g_nLastRead) :
          LET r == getDirty(g_anControllers, g_nLastRead, hit) IN
          /\ pinLevel' = r.pin
          /\ ev' = [RequestEvent(<<r.ret>>, r.last) EXCEPT
                       !.prev = IF IsScanReport(ev) THEN ev.out ELSE << >>]
          /\ host' = HostAfterScan(r.ret)
          /\ g_anControllers' =
                IF r.ret \in 1 .. MAX_CONTROLLERS
                THEN [g_anControllers EXCEPT ![r.ret - 1].dirty = FALSE]
                ELSE g_anControllers
    /\ UNCHANGED <<g_nI2Cregister, changed, confirmed>>

\* lines 304-306: the scan report, Wire.write(getDirty())
ScanReport ==
    /\ \E hit \in Hits(g_nLastRead) :
          LET r == getDirty(g_anControllers, g_nLastRead, hit) IN
          /\ pinLevel' = r.pin
          /\ ev' = [RequestEvent(<<r.ret>>, r.last) EXCEPT
                       !.prev = IF IsScanReport(ev) THEN ev.out ELSE << >>]
          /\ host' = HostAfterScan(r.ret)
    /\ UNCHANGED <<g_anControllers, g_nI2Cregister, changed, confirmed>>

\* onI2Crequest
onI2Crequest ==
    /\ IF g_nI2Cregister # 0
       THEN /\ sendValue(ToUint8(g_nI2Cregister))
            /\ g_nI2Cregister' = 0
       ELSE ScanReport
    /\ UNCHANGED <<g_nLastRead, now, pc, nDir, nNew, found>>

\* the millisecond clock advances by d
Tick(d) ==
    /\ now' = ClockAdd(now, d)
    /\ UNCHANGED <<g_anControllers, g_nLastRead, g_nI2Cregister, pinLevel,
                   pc, nDir, nNew, found, ev, changed, confirmed, host>>

\* --------------------------------------------------------- specifications
\* What the pins and the bus master offer.  Each specification is the whole
\* program under one environment: the controllers it names are operated, the
\* others are left alone (a potentiometer that rests within tolerance, a
\* switch that stays open, an encoder whose clock stays low).
AdcRest == {0, 3}
AdcSamples == {0, 3, 8}
Levels == {0, 1}
\* what Wire.read() gives: every register, the first address past the last
\* register, and -1 for an empty message
ReceiveReads == (0 .. (MAX_CONTROLLERS + 1)) \cup {-1}
\* the clock is seen to advance by half its range
CoarseSteps == {ClockMod \div 2}

\* the bus handlers and the clock, common to every specification
Bus(reads, steps) ==
    \/ \E b \in reads : onI2Creceive(b)
    \/ onI2Crequest
    \/ \E d \in steps : Tick(d)

\* the steps of loop() that take no input
Steps ==
    \/ storeValue
    \/ setDirty
    \/ loopGetDirty
    \/ loopWritePin

\* the first two switches are operated; the master sends any address
Next ==
    \/ \E s \in AdcRest : readAdc(s)
    \/ \E l \in (IF pc.i < 2 THEN Levels ELSE {0}) : readSwitch(l)
    \/ \E d \in Levels : readEncoder(0, d, MaxDelta)
    \/ Steps
    \/ Bus(ReceiveReads, CoarseSteps)

Spec == Init /\ [][Next]_vars

\* the first potentiometer is operated; the master reads it, or sends the
\* first address past the last register
NextAdc ==
    \/ \E s \in (IF pc.i < 1 THEN AdcSamples ELSE AdcRest) : readAdc(s)
    \/ readSwitch(0)
    \/ \E d \in Levels : readEncoder(0, d, MaxDelta)
    \/ Steps
    \/ Bus({0, POT_START + 1, MAX_CONTROLLERS + 1}, CoarseSteps)

SpecAdc == Init /\ [][NextAdc]_vars

\* the first encoder is turned, its data line high only while its clock is
\* high; the master reads it
NextEnc ==
    \/ \E s \in AdcRest : readAdc(s)
    \/ readSwitch(0)
    \/ \E k \in (IF pc.i < 1 THEN Levels ELSE {0}) : \E d \in 0 .. k :
          readEncoder(k, d, MaxDelta)
    \/ Steps
    \/ Bus({0, ENCODER_START + 1}, CoarseSteps)

SpecEnc == Init /\ [][NextEnc]_vars

\* the first encoder is turned as above and the clock of the second goes
\* high and low with its data line low, all within one reading of the clock;
\* the master reads the second
NextEncPair ==
    \/ readAdc(0)
    \/ readSwitch(0)
    \/ \E k \in (IF pc.i < 2 THEN Levels ELSE {0}) :
          \E d \in (IF pc.i < 1 THEN 0 .. k ELSE {0}) :
             readEncoder(k, d, MaxDelta)
    \/ Steps
    \/ \E b \in {0, ENCODER_START + 2} : onI2Creceive(b)
    \/ onI2Crequest

SpecEncPair == Init /\ [][NextEncPair]_vars

\* the first two switches are operated; the master repeats its read cycle
NextCycle ==
    \/ readAdc(0)
    \/ \E l \in (IF pc.i < 2 THEN Levels ELSE {0}) : readSwitch(l)
    \/ readEncoder(0, 0, MaxDelta)
    \/ Steps
    \/ \E b \in (IF host.phase = "select" THEN {host.r} ELSE {}) : onI2Creceive(b)
    \/ (host.phase # "select" /\ onI2Crequest)
    \/ \E d \in CoarseSteps : Tick(d)

SpecCycle == InitCycle /\ [][NextCycle]_vars

\* ------------------------------------------------------------------ claims
DirtySet == {i \in Index : g_anControllers[i].dirty}
Min(S) == CHOOSE x \in S : \A y \in S : x <= y
\* the first dirty index at or after c, or failing that the lowest one
FirstDirtyFrom(c) ==
    IF {i \in DirtySet : i >= c} # {} THEN Min({i \in DirtySet : i >= c})
    ELSE Min(DirtySet)

\* C1 as stated: with two or more controllers dirty, consecutive scan
\* reports with no receive and no filter step in between name every dirty
\* index once before any is named again; so the second of two such reports
\* differs from the first.
C1_EveryDirtyOnce ==
    (IsScanReport(ev) /\ ev.prev # << >> /\ Cardinality(DirtySet) >= 2)
        => ev.out # ev.prev

\* C1 amended: while some controller is dirty, every scan report names the
\* first dirty index at or after the scan cursor (the address last received,
\* which is the index following the register last selected), wrapping to the
\* lowest dirty index; consecutive scan reports name that same index.
C1_SameIndexUntilRead ==
    (IsScanReport(ev) /\ DirtySet # {})
        => /\ ev.out = << FirstDirtyFrom(g_nLastRead) + 1 >>
           /\ ev.prev # << >> => ev.prev = ev.out

\* two controllers are dirty, a register was selected, the report is repeated
\* and it passes over a dirty index below the cursor
C1_Witness ==
    /\ IsScanReport(ev) /\ ev.prev # << >>
    /\ Cardinality(DirtySet) >= 2
    /\ g_nLastRead \in 1 .. (MAX_CONTROLLERS - 1)
    /\ ev.out[1] - 1 >= g_nLastRead
    /\ \E i \in DirtySet : i < g_nLastRead

\* C2: the scan cursor names a valid registry index in every reachable state.
C2_CursorValid == g_nLastRead \in Index

\* C3: every registry index that sendValue and getDirty read or write lies
\* in [0, MAX_CONTROLLERS).
C3_InBounds == ev.last < MAX_CONTROLLERS

\* C4: a request that follows the receive of an address greater than the
\* registry size writes no byte, leaves every controller as it was and leaves
\* the selected register 0.
C4_OutOfRange ==
    [][(ToUint8(g_nI2Cregister) > MAX_CONTROLLERS /\ ev'.op = "request")
          => /\ ev'.out = << >>
             /\ g_anControllers' = g_anControllers
             /\ g_nI2Cregister' = 0]_vars

\* an address past the last register was just answered with nothing while a
\* controller is dirty
C4_Witness ==
    /\ ev.op = "request" /\ ev.reg > MAX_CONTROLLERS /\ ev.out = << >>
    /\ g_nI2Cregister = 0
    /\ DirtySet # {}

\* C5: after the value response for register a, controller a - 1 is not
\* dirty; and a scan report names a register only if its controller is dirty,
\* so it names none that was read and has not been set dirty again.
C5_ReadClearsDirty ==
    /\ IsValueResponse(ev) => ~g_anControllers[ev.reg - 1].dirty
    /\ (IsScanReport(ev) /\ ev.out[1] \in 1 .. MAX_CONTROLLERS)
          => g_anControllers[ev.out[1] - 1].dirty

\* a scan report names a dirty controller while the controller before the
\* cursor has been changed, read and is clean
C5_Witness ==
    /\ IsScanReport(ev) /\ ev.out # <<0>>
    /\ g_nLastRead \in 1 .. MAX_CONTROLLERS
    /\ g_anControllers[g_nLastRead - 1].value # 0
    /\ ~g_anControllers[g_nLastRead - 1].dirty
    /\ ~changed[g_nLastRead - 1]
    /\ pc.step \notin {"store", "mark"}

\* C6: whenever loop() is between two controllers, a controller is dirty
\* exactly if a filter has stored a value in it since it was last read (or
\* since start-up).
C6_DirtyIffChanged ==
    pc.step \notin {"store", "mark"}
        => \A i \in Index : g_anControllers[i].dirty <=> changed[i]

\* C7: right after a completed pass of loop() and right after a value
\* response, the interrupt pin is LOW exactly if some controller is dirty.
C7_PinFollowsDirty ==
    (ev.op = "pass" \/ IsValueResponse(ev))
        => (pinLevel = LOW <=> DirtySet # {})

\* C8: a value response for an encoder sends its accumulated value and leaves
\* the stored value 0, and sends 0 when the decoder has matched no tick for
\* that encoder since its last value response; a value response for a
\* potentiometer or a switch leaves the stored value as it was.
C8_EncoderRead ==
    [][(g_nI2Cregister \in 1 .. MAX_CONTROLLERS /\ IsValueResponse(ev')
          /\ g_nI2Cregister' = 0)
          => LET i == g_nI2Cregister - 1 IN
             IF TypeOf(i) = CONTROLLER_TYPE_ENCODER
             THEN /\ g_anControllers'[i].value = 0
                  /\ ev'.out = anValue(g_anControllers[i].value)
                  /\ ~confirmed[i] => ev'.out = <<0, 0>>
             ELSE g_anControllers'[i].value = g_anControllers[i].value]_vars

\* a step of readAdc on the potentiometer loop() is at
AdcStep ==
    /\ pc.loop = "readAdc" /\ pc.step = "sample"
    /\ pc' # pc
    /\ ev'.op = "readAdc"

\* C9: a sample less than one mask unit from the stored value (equal to it
\* included) leaves value and dirty as they were, sets the count to 0 and
\* leads to no store, whatever the count was.
C9_Rejection ==
    [][(AdcStep /\ Abs(ev'.in - g_anControllers[Current].value) < 2 ^ ADC_MASK_BITS)
          => /\ g_anControllers' =
                   [g_anControllers EXCEPT ![Current].count = 0]
             /\ pc'.step = "sample"]_vars

\* a sample that differs from the stored value by less than a mask unit has
\* just reset a count that was running
C9_Witness ==
    /\ ev.op = "readAdc"
    /\ ev.was > 0
    /\ ev.in # g_anControllers[ev.reg - 1].value
    /\ Abs(ev.in - g_anControllers[ev.reg - 1].value) < 2 ^ ADC_MASK_BITS
    /\ g_anControllers[ev.reg - 1].count = 0

\* C10: a sample a mask unit or more from the stored value only increments
\* the count on each of the first 7 passes in a row, leaving value and dirty;
\* on the 8th it resets the count and the sample is then stored as the value
\* and dirty set; a sample equal to the stored value leads to no store; and
\* the value response of a potentiometer sends its value shifted right by
\* ADC_MASK_BITS, low byte first.
C10_Acceptance ==
    [][/\ (AdcStep /\ Abs(ev'.in - g_anControllers[Current].value) >= 4)
            => IF g_anControllers[Current].count < 7
               THEN /\ g_anControllers' =
                          [g_anControllers EXCEPT ![Current].count = @ + 1]
                    /\ pc'.step = "sample"
               ELSE /\ g_anControllers' =
                          [g_anControllers EXCEPT ![Current].count = 0]
                    /\ pc'.step = "store"
                    /\ nNew' = ev'.in
       /\ (AdcStep /\ ev'.in = g_anControllers[Current].value)
            => pc'.step = "sample"
       /\ (pc.loop = "readAdc" /\ pc.step = "store" /\ pc' # pc)
            => /\ g_anControllers' =
                     [g_anControllers EXCEPT ![Current].value = nNew]
               /\ pc'.step = "mark"
       /\ (pc.loop = "readAdc" /\ pc.step = "mark" /\ pc' # pc)
            => /\ g_anControllers'[Current].dirty
               /\ g_anControllers'[Current].count = 0
               /\ g_anControllers'[Current].value = g_anControllers[Current].value
       /\ (g_nI2Cregister \in (POT_START + 1) .. SWITCH_START
             /\ IsValueResponse(ev') /\ g_nI2Cregister' = 0)
            => ev'.out =
                  << (g_anControllers[g_nI2Cregister - 1].value \div 4) % 256,
                     (g_anControllers[g_nI2Cregister - 1].value \div 1024) % 256 >>
      ]_vars

\* the sample 8 was accepted, marked dirty and has just been read as 2
C10_Witness ==
    /\ IsValueResponse(ev)
    /\ ev.reg = POT_START + 1
    /\ ev.out = <<2, 0>>
    /\ g_anControllers[POT_START].value = 8
    /\ ~g_anControllers[POT_START].dirty

\* the time elapsed since a controller's time stamp, on the clock's range
Elapsed(c) == (now - c.time) % ClockMod

\* a step of readSwitch on the switch loop() is at
SwitchStep ==
    /\ pc.loop = "readSwitch" /\ pc.step = "sample"
    /\ pc' # pc
    /\ ev'.op = "readSwitch"

\* C11: a level that differs from the stored value is discarded while the
\* time elapsed since the switch's time stamp is at most DEBOUNCE_TIME and is
\* accepted once it exceeds DEBOUNCE_TIME (the level is then stored, dirty
\* set and the time stamped); a level equal to the stored value is discarded;
\* a discarded sample changes nothing.
C11_DebounceWindow ==
    [][/\ SwitchStep
            => LET c == g_anControllers[Current] IN
               /\ g_anControllers' = g_anControllers
               /\ IF ev'.in # c.value /\ Elapsed(c) > DEBOUNCE_TIME
                  THEN pc'.step = "store" /\ nNew' = ev'.in
                  ELSE pc'.step = "sample"
       /\ (pc.loop = "readSwitch" /\ pc.step = "store" /\ pc' # pc)
            => /\ g_anControllers' =
                     [g_anControllers EXCEPT ![Current].value = nNew]
               /\ pc'.step = "mark"
       /\ (pc.loop = "readSwitch" /\ pc.step = "mark" /\ pc' # pc)
            => g_anControllers' =
                  [g_anControllers EXCEPT ![Current].dirty = TRUE,
                                          ![Current].time = now]
      ]_vars

\* C12: for every clock value and every time stamp, the debounce comparison
\* of a switch says the window is over exactly if the time elapsed on the
\* clock's range exceeds DEBOUNCE_TIME, and the comparison of an encoder says
\* the turn is slow exactly if the time elapsed has reached ROT_THRESHOLD.
C12_WrapSafe ==
    \A i \in Index :
        LET c == g_anControllers[i] IN
        /\ TypeOf(i) = CONTROLLER_TYPE_SWITCH
              => (DebounceOver(c) <=> Elapsed(c) > DEBOUNCE_TIME)
        /\ TypeOf(i) = CONTROLLER_TYPE_ENCODER
              => (SlowTurn(c, now) <=> Elapsed(c) >= ROT_THRESHOLD)

\* a step of readEncoder on the encoder loop() is at
EncoderStep ==
    /\ pc.loop = "readEncoder" /\ pc.step = "sample"
    /\ pc' # pc
    /\ ev'.op = "readEncoder"

\* the clock and data levels of a recorded encoder sample
ClkOf(in) == in % 2
DataOf(in) == in \div 2

\* the sample is one the decoder looks at: the clock is high or a code is held
Sampled(c, in) == ~(ClkOf(in) = 0 /\ c.code = 0)

\* the 4-bit code and the 8-bit history the sample leads to
CodeWith(c, in) == NextCode(c.code, ClkOf(in), DataOf(in))
HistoryWith(c, in) == NextCount(c.count, CodeWith(c, in))

\* the sample is looked at, its code is valid and it completes a tick pattern
CompletesTick(c, in) ==
    /\ Sampled(c, in)
    /\ anValid[CodeWith(c, in) + 1] # 0
    /\ HistoryWith(c, in) \in {23, 212}

\* C13: when the history reaches 0x17 the value goes up, and when it reaches
\* 0xd4 down, by 1 if the time elapsed since the encoder's time stamp exceeds
\* ROT_THRESHOLD and by ROT_FAST_SCALE otherwise; the time is stamped, the
\* code reset to 0 and dirty set.
C13_TickScaling ==
    [][/\ (EncoderStep /\ CompletesTick(g_anControllers[Current], ev'.in))
            => LET c == g_anControllers[Current]
                   sign == IF HistoryWith(c, ev'.in) = 23 THEN 1 ELSE -1
                   size == IF Elapsed(c) > ROT_THRESHOLD THEN 1 ELSE ROT_FAST_SCALE
               IN  /\ pc'.step = "store"
                   /\ nNew' = c.value + sign * size
                   /\ g_anControllers'[Current].time = now
                   /\ g_anControllers'[Current].code = 0
       /\ (pc.loop = "readEncoder" /\ pc.step = "store" /\ pc' # pc)
            => /\ g_anControllers'[Current].value = nNew
               /\ pc'.step = "mark"
       /\ (pc.loop = "readEncoder" /\ pc.step = "mark" /\ pc' # pc)
            => /\ g_anControllers'[Current].dirty
               /\ g_anControllers'[Current].code = 0
      ]_vars

\* a step of onI2Crequest
RequestStep == ev'.op = "request" /\ now' = now

\* a step of onI2Creceive
ReceiveStep == ev'.op = "receive" /\ now' = now /\ pc' = pc

\* C14: the selected register is 0 at start-up and after every request; a
\* receive of a non-zero address leaves it non-zero and a receive of 0 leaves
\* it 0; a request with register 0 writes one byte, the scan report; a
\* request with a register in 1 .. MAX_CONTROLLERS writes two bytes, the
\* value of that controller, low byte first; and nothing else writes two
\* bytes.
C14_BusStateMachine ==
    [][/\ ev.op = "none" => g_nI2Cregister = 0
       /\ RequestStep => g_nI2Cregister' = 0
       /\ ReceiveStep => (g_nI2Cregister' # 0 <=> ev'.reg # 0)
       /\ (RequestStep /\ g_nI2Cregister = 0) => Len(ev'.out) = 1
       /\ (RequestStep /\ g_nI2Cregister \in 1 .. MAX_CONTROLLERS)
            => LET i == g_nI2Cregister - 1
                   v == IF TypeOf(i) = CONTROLLER_TYPE_POT
                        THEN g_anControllers[i].value \div (2 ^ ADC_MASK_BITS)
                        ELSE g_anControllers[i].value
               IN  ev'.out = << v % 256, (v \div 256) % 256 >>
       /\ Len(ev'.out) = 2
            => /\ ev'.op = "request"
               /\ ev'.reg \in 1 .. MAX_CONTROLLERS
               /\ ev' # ev => g_nI2Cregister = ev'.reg
       /\ ev'.op # "request" => ev'.out = << >>
      ]_vars

\* a register was selected and then answered with the two bytes of a
\* non-zero value
C14_Witness ==
    /\ IsValueResponse(ev)
    /\ ev.out # <<0, 0>>
    /\ g_nI2Cregister = 0

\* C15: a request with register 0 leaves every controller, the scan cursor
\* and the selected register as they were.
C15_ScanReportFrame ==
    [][(RequestStep /\ g_nI2Cregister = 0)
          => /\ g_anControllers' = g_anControllers
             /\ g_nLastRead' = g_nLastRead
             /\ g_nI2Cregister' = g_nI2Cregister]_vars

\* a scan report has just named a dirty controller from a cursor that is not
\* 0, and rewritten the pin, and the controller is still dirty
C15_Witness ==
    /\ IsScanReport(ev)
    /\ ev.out[1] \in 1 .. MAX_CONTROLLERS
    /\ g_anControllers[ev.out[1] - 1].dirty
    /\ g_nLastRead # 0
    /\ pinLevel = LOW

\* the cyclic order c, c + 1, ..., MAX_CONTROLLERS - 1, 0, ..., c - 1
CyclicOrder(c) ==
    [k \in 1 .. MAX_CONTROLLERS |-> (c + k - 1) % MAX_CONTROLLERS]

\* C16: for a cursor in 0 .. MAX_CONTROLLERS, the scan report is 1 + the
\* first dirty index in the cyclic order from the cursor, and 0 exactly when
\* no controller is dirty; the scan reads registry indices only, each at most
\* once.
C16_NextDirty ==
    (IsScanReport(ev) /\ g_nLastRead \in 0 .. MAX_CONTROLLERS)
        => LET c == g_nLastRead
               order == CyclicOrder(c)
               hits == {k \in 1 .. MAX_CONTROLLERS : g_anControllers[order[k]].dirty}
           IN  /\ ev.out = << IF hits = {} THEN 0 ELSE order[Min(hits)] + 1 >>
               /\ ev.out = <<0>> <=> DirtySet = {}
               /\ ev.last \in Index
               /\ \A j, k \in 1 .. ScanLen(c) :
                     /\ ScanAt(c, k) \in Index
                     /\ j # k => ScanAt(c, j) # ScanAt(c, k)

\* after the receive of an address the scan report has passed over the end of
\* the registry and named a dirty controller below the cursor
C16_Witness ==
    /\ IsScanReport(ev)
    /\ g_nLastRead \in 1 .. MAX_CONTROLLERS
    /\ ev.out[1] \in 1 .. g_nLastRead
    /\ ev.last = ev.out[1] - 1

\* C17: a sample that does not complete a tick pattern on the encoder it is
\* taken from leaves that encoder's value, dirty flag and time stamp as they
\* were, resets no code and leads to no store.
C17_OwnTickOnly ==
    [][(EncoderStep /\ ~CompletesTick(g_anControllers[Current], ev'.in))
          => LET c == g_anControllers[Current]
                 n == g_anControllers'[Current]
             IN  /\ n.value = c.value /\ n.dirty = c.dirty /\ n.time = c.time
                 /\ n.code = (IF Sampled(c, ev'.in) THEN CodeWith(c, ev'.in) ELSE c.code)
                 /\ pc'.step # "store"
                 /\ nNew' = nNew]_vars

\* the 4-bit codes that are no single step of a quadrature cycle
InvalidCodes == {0, 3, 5, 6, 9, 10, 12, 15}

\* C18: a sample whose 4-bit code is invalid leaves the encoder's history,
\* value, dirty flag and time stamp as they were and leads to no store; a
\* sample with the clock low on an encoder whose code is 0 changes no field
\* of any controller.
C18_InvalidDiscarded ==
    [][/\ (EncoderStep /\ Sampled(g_anControllers[Current], ev'.in)
             /\ CodeWith(g_anControllers[Current], ev'.in) \in InvalidCodes)
            => LET c == g_anControllers[Current]
                   n == g_anControllers'[Current]
               IN  /\ n.count = c.count /\ n.value = c.value
                   /\ n.dirty = c.dirty /\ n.time = c.time
                   /\ pc'.step # "store"
                   /\ nNew' = nNew
       /\ (EncoderStep /\ ~Sampled(g_anControllers[Current], ev'.in))
            => /\ g_anControllers' = g_anControllers
               /\ pc'.step # "store"
               /\ nNew' = nNew
      ]_vars

\* the second encoder has just given an invalid code, after a tick of the
\* first in the same scan, with a history of its own to keep
C18_Witness ==
    /\ ev.op = "readEncoder"
    /\ ev.reg = ENCODER_START + 2
    /\ ev.was # 0
    /\ g_anControllers[ENCODER_START + 1].code \in InvalidCodes \ {0}
    /\ g_anControllers[ENCODER_START + 1].count # 0

\* the 16-bit two's complement value that two bytes, low byte first, stand for
FromBytes(out) ==
    LET u == out[1] + 256 * out[2] IN IF u >= 32768 THEN u - 65536 ELSE u

\* C20: the deltas delivered plus the value stored equal the increments
\* applied, step by step: the store that follows a tick adds that tick's
\* increment to the value stored at that moment, and a value response for an
\* encoder takes from the stored value exactly what it delivers.
C20_DeltaConserved ==
    [][/\ (pc.loop = "readEncoder" /\ pc.step = "store" /\ pc' # pc)
            => (g_anControllers'[Current].value - g_anControllers[Current].value)
                   \in {nDir, nDir * ROT_FAST_SCALE}
       /\ (RequestStep /\ g_nI2Cregister \in (ENCODER_START + 1) .. MAX_CONTROLLERS)
            => LET i == g_nI2Cregister - 1 IN
               g_anControllers[i].value - g_anControllers'[i].value
                   = FromBytes(ev'.out)
      ]_vars

\* C19: under the master's read cycle, a controller that is dirty is read
\* before MAX_CONTROLLERS value responses have gone to other controllers, so
\* within MAX_CONTROLLERS cycles.
C19_NoStarvation ==
    \A j \in Index : host.wait[j] < MAX_CONTROLLERS

\* the higher switch is dirty and has waited through a read of the lower
\* one, which a filter has made dirty again
C19_Witness ==
    /\ host.phase # "free"
    /\ g_anControllers[SWITCH_START + 1].dirty
    /\ host.wait[SWITCH_START + 1] > 0
    /\ g_anControllers[SWITCH_START].dirty

====
